---- MODULE Spec2Model ----
(***************************************************************************)
(* rdkit_canonical.py: a command-line wrapper around the RDKit calls       *)
(* Chem.MolFromSmiles and Chem.MolToSmiles.                                *)
(*                                                                         *)
(* The model follows one shell session: the script is run, runs to its     *)
(* end, and is run again with another argument list.  The library is the   *)
(* environment: a parse function and a canonical writer chosen             *)
(* arbitrarily in Init and fixed for the session (a deterministic          *)
(* library), each call of which may also raise (resource exhaustion).      *)
(***************************************************************************)
EXTENDS Integers, Sequences, FiniteSets

\* Largest number of positional arguments given to one invocation.
MaxArgs == 2

\* The texts that occur: command-line arguments and the library's outputs.
Strs == {"", "OC", "CO"}

\* The molecule handles the library can return.
Mols == {"m1", "m2"}

\* Python's None: what MolFromSmiles returns for text it rejects.
None == "None"

\* sys.argv[0], the script's own name.
Prog == "rdkit_canonical.py"

VARIABLES
    Chem,       \* the library: [MolFromSmiles, MolToSmiles], fixed for the session
    argv,       \* sys.argv of the running invocation (argv[1] is Python's sys.argv[0])
    pc,         \* position of the running invocation in the script
    smiles,     \* canonical_smiles' parameter
    mol,        \* canonical_smiles' local
    ret,        \* canonical_smiles' return value
    stdout,     \* the lines the invocation has printed
    exitcode,   \* the process's exit status, None while it runs
    exc,        \* the uncaught exception that ended the process, None if none
    calls,      \* the library calls and prints of the invocation, in order
    prev        \* the last finished invocation: its first argument (None if it
                \* had none), what canonical_smiles returned (None if it did
                \* not return), its output and its exit status

vars == <<Chem, argv, pc, smiles, mol, ret, stdout, exitcode, exc, calls, prev>>

\* All argument lists of at most MaxArgs positional arguments.
ArgLists == UNION {[1..n -> Strs] : n \in 0..MaxArgs}

\* sys.argv for a list of positional arguments.
SysArgv(args) == <<Prog>> \o args

\* The libraries: every parse function and every canonical writer.
Libraries ==
    [MolFromSmiles : [Strs -> Mols \cup {None}], MolToSmiles : [Mols -> Strs]]

\* No invocation has finished yet.
NoPrev == [run |-> FALSE, input |-> None, ret |-> None, stdout |-> <<>>, exitcode |-> None]

\* A fresh process: nothing is computed, nothing is printed.
Fresh(a) ==
    /\ argv = a
    /\ pc = "main"
    /\ smiles = None
    /\ mol = None
    /\ ret = None
    /\ stdout = <<>>
    /\ exitcode = None
    /\ exc = None
    /\ calls = <<>>

Init ==
    /\ Chem \in Libraries
    /\ prev = NoPrev
    /\ \E args \in ArgLists : Fresh(SysArgv(args))

\* One entry of calls: the operation, its argument and what came back.
Event(op, arg, res) == [op |-> op, arg |-> arg, res |-> res]

\* What came back from a call that raised.
Raised == "raised"

\* Variant: if len(sys.argv) < 1, the test off by one downwards.
NoArguments_OffByOne(a) == Len(a) < 1

\* Variant: if len(sys.argv) <= 2, the test off by one upwards.
NoArguments_OneTooMany(a) == Len(a) <= 2

\* if len(sys.argv) < 2
NoArguments(a) == Len(a) < 2

\* Variant: sys.exit(1), a missing argument reported as a failure.
ExitStatus_Failure == 0 + 1

\* sys.exit(0)
ExitStatus == 0

\* Variant: input_smiles = sys.argv[-1], the last argument.
input_smiles_Last(a) == a[Len(a)]

\* input_smiles = sys.argv[1]
input_smiles(a) == a[2]

\* Variant: if mol is not None, the test inverted.
Rejected_Inverted(m) == m # None

\* Variant: the test left out, every parse result passed on.
Rejected_Never(m) == FALSE

\* if mol is None
Rejected(m) == m = None

\* Variant: return None, which print shows as the line None.
ReturnOnNone_NoneObject == None

\* return ''
ReturnOnNone == ""

\* Variant: canonical=False.
canonical_False == FALSE

\* canonical=True
canonical == TRUE

\* Variant: the calls wrapped in try/except, the handler printing an empty
\* line and the script ending normally.
Uncaught_Swallowed(e) ==
    /\ exc' = None
    /\ pc' = "exited"
    /\ exitcode' = 0
    /\ stdout' = Append(stdout, "")

\* An exception nobody catches: the interpreter prints its traceback to
\* stderr, nothing more goes to stdout, and the process ends with status 1.
Uncaught(e) ==
    /\ exc' = e
    /\ pc' = "exited"
    /\ exitcode' = 1
    /\ UNCHANGED stdout

\* What MolToSmiles(m, c) can return.  The canonical writer is the session's
\* function; the program never asks for the other writer, whose output is
\* left unconstrained.
MolToSmilesResults(m, c) == IF c THEN {Chem.MolToSmiles[m]} ELSE Strs

\* The script's top: with no positional argument print('') and sys.exit(0);
\* otherwise read sys.argv[1] (an IndexError if it is not there) and call
\* canonical_smiles.
Main ==
    /\ pc = "main"
    /\ IF NoArguments(argv)
         THEN /\ stdout' = Append(stdout, "")
              /\ calls' = Append(calls, Event("print", "", None))
              /\ pc' = "exited"
              /\ exitcode' = ExitStatus
              /\ UNCHANGED <<smiles, exc>>
         ELSE IF Len(argv) >= 2
           THEN /\ smiles' = input_smiles(argv)
                /\ pc' = "MolFromSmiles"
                /\ UNCHANGED <<stdout, exitcode, exc, calls>>
           ELSE /\ Uncaught("IndexError")
                /\ UNCHANGED <<smiles, calls>>
    /\ UNCHANGED <<Chem, argv, mol, ret, prev>>

\* mol = Chem.MolFromSmiles(smiles), the call returning.
ParseReturns ==
    /\ pc = "MolFromSmiles"
    /\ mol' = Chem.MolFromSmiles[smiles]
    /\ calls' = Append(calls, Event("MolFromSmiles", smiles, mol'))
    /\ pc' = "test"
    /\ UNCHANGED <<Chem, argv, smiles, ret, stdout, exitcode, exc, prev>>

\* mol = Chem.MolFromSmiles(smiles), the call raising.
ParseRaises ==
    /\ pc = "MolFromSmiles"
    /\ calls' = Append(calls, Event("MolFromSmiles", smiles, Raised))
    /\ Uncaught("LibraryError")
    /\ UNCHANGED <<Chem, argv, smiles, mol, ret, prev>>

\* if mol is None: return ''
TestMol ==
    /\ pc = "test"
    /\ IF Rejected(mol)
         THEN /\ ret' = ReturnOnNone
              /\ pc' = "print"
         ELSE /\ pc' = "MolToSmiles"
              /\ UNCHANGED ret
    /\ UNCHANGED <<Chem, argv, smiles, mol, stdout, exitcode, exc, calls, prev>>

\* return Chem.MolToSmiles(mol, canonical=True), the call returning.  The
\* library returns only for a molecule.
SerializeReturns ==
    /\ pc = "MolToSmiles"
    /\ mol \in Mols
    /\ \E s \in MolToSmilesResults(mol, canonical) :
          /\ ret' = s
          /\ calls' = Append(calls, Event("MolToSmiles", mol, s))
    /\ pc' = "print"
    /\ UNCHANGED <<Chem, argv, smiles, mol, stdout, exitcode, exc, prev>>

\* return Chem.MolToSmiles(mol, canonical=True), the call raising: always for
\* an argument that is no molecule, possibly for a molecule.
SerializeRaises ==
    /\ pc = "MolToSmiles"
    /\ calls' = Append(calls, Event("MolToSmiles", mol, Raised))
    /\ Uncaught("LibraryError")
    /\ UNCHANGED <<Chem, argv, smiles, mol, ret, prev>>

\* print(canonical_smiles(input_smiles)); the script ends there, status 0.
PrintResult ==
    /\ pc = "print"
    /\ stdout' = Append(stdout, ret)
    /\ calls' = Append(calls, Event("print", ret, None))
    /\ pc' = "exited"
    /\ exitcode' = 0
    /\ UNCHANGED <<Chem, argv, smiles, mol, ret, exc, prev>>

\* The shell runs the script again: a new process, a new argument list.
Invoke ==
    /\ pc = "exited"
    /\ prev' = [run |-> TRUE,
                 input |-> IF Len(argv) >= 2 THEN argv[2] ELSE None,
                 ret |-> ret, stdout |-> stdout, exitcode |-> exitcode]
    /\ \E args \in ArgLists : argv' = SysArgv(args)
    /\ pc' = "main"
    /\ smiles' = None
    /\ mol' = None
    /\ ret' = None
    /\ stdout' = <<>>
    /\ exitcode' = None
    /\ exc' = None
    /\ calls' = <<>>
    /\ UNCHANGED Chem

Next ==
    \/ Main
    \/ ParseReturns
    \/ ParseRaises
    \/ TestMol
    \/ SerializeReturns
    \/ SerializeRaises
    \/ PrintResult
    \/ Invoke

Spec == Init /\ [][Next]_vars

(***************************************************************************)
(* Properties.                                                             *)
(***************************************************************************)

\* The library's answer for x when both calls return: the canonical text of
\* the parsed molecule, or '' when the parser rejects x.
Canonical(x) ==
    IF Chem.MolFromSmiles[x] = None
      THEN ""
      ELSE Chem.MolToSmiles[Chem.MolFromSmiles[x]]

\* Some library call of the running invocation raised.
SomeCallRaised == \E i \in DOMAIN calls : calls[i].res = Raised

\* MolFromSmiles, called on the first argument, returned None.
ParseReturnedNone ==
    /\ Len(argv) >= 2
    /\ \E i \in DOMAIN calls :
          calls[i] = Event("MolFromSmiles", argv[2], None)

\* C1: once the parser has returned None for the first argument, nothing is
\* raised, MolToSmiles is not called, canonical_smiles returns '', and the
\* process ends having printed exactly one empty line, with exit status 0.
C1_RejectedPrintsEmptyLine ==
    ParseReturnedNone =>
        /\ exc = None
        /\ pc \in {"test", "print", "exited"}
        /\ pc = "print" => ret = ""
        /\ pc = "exited" => stdout = <<"">> /\ exitcode = 0

\* A non-empty text was rejected and the invocation ended with an empty line.
C1_Witness ==
    /\ pc = "exited"
    /\ ParseReturnedNone
    /\ argv[2] = "OC"
    /\ ret = ""
    /\ stdout = <<"">>
    /\ exitcode = 0

\* C2: an invocation with at least one positional argument that ends without
\* an exception has printed exactly one line, the library's canonical text of
\* the first argument ('' if the parser rejects it), whatever the further
\* arguments are, and its exit status is 0.
C2_PrintsCanonicalOfFirstArgument ==
    (pc = "exited" /\ Len(argv) >= 2 /\ exc = None) =>
        /\ stdout = <<Canonical(argv[2])>>
        /\ exitcode = 0

\* Two arguments that the library canonicalises differently; the line is the
\* first one's canonical text.
C2_Witness ==
    /\ pc = "exited"
    /\ Len(argv) = 3
    /\ Chem.MolFromSmiles[argv[2]] # None
    /\ Canonical(argv[3]) # Canonical(argv[2])
    /\ stdout = <<Canonical(argv[2])>>
    /\ stdout # <<argv[2]>>
    /\ exitcode = 0

\* C3: an invocation with no positional argument ends having printed exactly
\* one empty line, with exit status 0.
C3_NoArgumentsPrintsEmptyLine ==
    (pc = "exited" /\ Len(argv) = 1) => (stdout = <<"">> /\ exitcode = 0)

\* An invocation without arguments has ended.
C3_Witness ==
    /\ pc = "exited"
    /\ argv = <<Prog>>
    /\ stdout = <<"">>
    /\ exitcode = 0

\* C4, as claimed: no invocation ends with a non-zero exit status, whatever
\* the library calls do.
C4_NeverNonZero == pc = "exited" => exitcode = 0

\* C4, amended: an invocation in which no library call raised ends with exit
\* status 0, whatever its arguments and whatever the calls returned.
C4_ZeroUnlessLibraryRaises ==
    (pc = "exited" /\ ~SomeCallRaised) => exitcode = 0

\* Malformed input: the parser returned None and the exit status is 0.
C4_Witness ==
    /\ pc = "exited"
    /\ ParseReturnedNone
    /\ ~SomeCallRaised
    /\ exitcode = 0

\* C5, as claimed: when canonical_smiles returns for an input the parser
\* accepted, the string it returns is not empty.
C5_AcceptedGivesNonEmpty ==
    (pc = "print" /\ mol \in Mols) => ret # ""

\* C5, amended: when canonical_smiles returns for an input the parser
\* accepted, it returns exactly what the canonical writer gave for the parsed
\* molecule, so the output is non-empty exactly when the writer's text is.
C5_AcceptedGivesWriterOutput ==
    (pc = "print" /\ mol \in Mols) =>
        /\ mol = Chem.MolFromSmiles[smiles]
        /\ ret = Chem.MolToSmiles[mol]
        /\ ret # "" <=> Chem.MolToSmiles[Chem.MolFromSmiles[smiles]] # ""

\* The parser accepted a non-empty text and canonical_smiles returned the
\* writer's non-empty text for it.
C5_Witness ==
    /\ pc = "print"
    /\ smiles = "OC"
    /\ mol \in Mols
    /\ ret = "CO"

\* The library gives no text for the empty string: it rejects it, or writes
\* its molecule as ''.
EmptyForEmpty == Canonical("") = ""

\* An invocation with the single argument '' has ended without a library
\* call raising, right after an invocation without arguments.
AfterNoArgumentsThenEmptyArgument ==
    /\ prev.run
    /\ prev.input = None
    /\ pc = "exited"
    /\ argv = <<Prog, "">>
    /\ ~SomeCallRaised

LibraryIdempotent ==
    \A h \in Mols :
        /\ Chem.MolFromSmiles[Chem.MolToSmiles[h]] # None
        /\ Chem.MolToSmiles[Chem.MolFromSmiles[Chem.MolToSmiles[h]]]
             = Chem.MolToSmiles[h]

\* canonical_smiles has returned for the text it returned in the previous
\* invocation, whose input the parser accepted.
ReturnedForPreviousOutput ==
    /\ prev.input \in Strs
    /\ Chem.MolFromSmiles[prev.input] # None
    /\ prev.ret \in Strs
    /\ pc = "print"
    /\ smiles = prev.ret

\* C7: with an idempotent library, canonical_smiles applied to what it
\* returned for a valid input returns that same string again.
C7_Idempotent ==
    (LibraryIdempotent /\ ReturnedForPreviousOutput) => ret = prev.ret

\* A valid input that is not its own canonical text, canonicalised twice.
C7_Witness ==
    /\ LibraryIdempotent
    /\ ReturnedForPreviousOutput
    /\ prev.input # prev.ret
    /\ prev.ret # ""
    /\ ret = prev.ret

\* C8: with the deterministic library of the session, canonical_smiles called
\* in two invocations with the same first argument returns the same string,
\* whatever else differs between the invocations.
C8_Deterministic ==
    (pc = "print" /\ prev.ret \in Strs /\ prev.input = argv[2]) =>
        ret = prev.ret

\* The same valid first argument twice, the second time with a further
\* argument, and the same non-empty result.
C8_Witness ==
    /\ pc = "print"
    /\ prev.ret \in Strs
    /\ prev.input = argv[2]
    /\ Len(argv) = 3
    /\ argv[3] # argv[2]
    /\ ret = prev.ret
    /\ ret # ""

\* C9: when a library call raised, the invocation has printed nothing, the
\* exception is pending uncaught, and the process ends with a non-zero status.
C9_LibraryExceptionPropagates ==
    SomeCallRaised =>
        /\ stdout = <<>>
        /\ exc # None
        /\ pc = "exited"
        /\ exitcode \in Int
        /\ exitcode # 0

\* MolToSmiles raised for a molecule the parser returned.
C9_Witness ==
    /\ Len(calls) = 2
    /\ calls[1].res \in Mols
    /\ calls[2] = Event("MolToSmiles", calls[1].res, Raised)
    /\ stdout = <<>>
    /\ exitcode = 1

\* The positions in calls of the calls of one operation.
CallsOf(op) == {i \in DOMAIN calls : calls[i].op = op}

\* C10: in one invocation MolFromSmiles is called at most once and never
\* without a positional argument; MolToSmiles is called at most once, only
\* after MolFromSmiles returned a molecule and only on that molecule, never
\* on None; one line at most is printed, after every library call, and only
\* when no call raised.
C10_CallOrder ==
    /\ Cardinality(CallsOf("MolFromSmiles")) <= 1
    /\ Cardinality(CallsOf("MolToSmiles")) <= 1
    /\ Cardinality(CallsOf("print")) <= 1
    /\ Len(stdout) = Cardinality(CallsOf("print"))
    /\ Len(argv) < 2 =>
          CallsOf("MolFromSmiles") \cup CallsOf("MolToSmiles") = {}
    /\ \A j \in CallsOf("MolToSmiles") :
          /\ calls[j].arg \in Mols
          /\ \E i \in CallsOf("MolFromSmiles") :
                i < j /\ calls[i].res = calls[j].arg
    /\ \A p \in CallsOf("print") :
          /\ p = Len(calls)
          /\ ~SomeCallRaised
          /\ Len(argv) >= 2 => CallsOf("MolFromSmiles") # {}
          /\ \A i \in CallsOf("MolFromSmiles") :
                calls[i].res \in Mols => CallsOf("MolToSmiles") # {}

\* Parse, then serialize on the parsed molecule, then the line.
C10_Witness ==
    /\ Len(calls) = 3
    /\ calls[1].op = "MolFromSmiles"
    /\ calls[2].op = "MolToSmiles"
    /\ calls[2].arg = calls[1].res
    /\ calls[3] = Event("print", calls[2].res, None)
    /\ stdout = <<calls[2].res>>

====
